---------------------------- MODULE Spec2Model ----------------------------
(***************************************************************************)
(* A model of the Monte Carlo tree search of alphago/mcts_tree.py: the     *)
(* node tree, select / expand / backup, the mcts driver, and the pure      *)
(* distribution helpers (normalise, extremise, compute_ucb, Dirichlet      *)
(* mixing); and of the noughts and crosses of alphago/noughts_and_crosses  *)
(* (is_terminal, utility, next_states).                                    *)
(*                                                                         *)
(* Numbers.  Python floats are modelled by exact rationals <<n, d>> with   *)
(* d > 0 in lowest terms; np.sqrt of a visit total is kept exact as a      *)
(* number a + b * sqrt(s).  Rounding is not modelled.  A dict is a         *)
(* sequence of [k, v] records in insertion order.                          *)
(***************************************************************************)
EXTENDS Integers, Sequences, FiniteSets, TLC

VARIABLES tree, search, last, fnIn, fnOut

vars == <<tree, search, last, fnIn, fnOut>>

---------------------------------------------------------------------------
(* Bounds of the model. *)

\* longest dict handed to a pure helper
MaxLen == 2
\* largest visit count handed to compute_ucb
MaxCount == 1
\* tokens on the table in the largest root position of the game
MaxTokens == 3
\* passes of the loop of mcts, summed over all the searches of a run
MaxPasses == 5
\* direct calls of a node method on one tree
MaxCalls == 3

---------------------------------------------------------------------------
(* Exact rational arithmetic standing for float arithmetic. *)

Abs(x) == IF x < 0 THEN -x ELSE x

RECURSIVE GCD(_, _)
GCD(a, b) == IF b = 0 THEN a ELSE GCD(b, a % b)

Rat(n, d) ==
    LET s == IF d < 0 THEN -1 ELSE 1
        g == GCD(Abs(n), Abs(d))
    IN  IF n = 0 THEN <<0, 1>> ELSE <<(s * n) \div g, (s * d) \div g>>

RInt(n) == <<n, 1>>
RAdd(x, y) == Rat(x[1] * y[2] + y[1] * x[2], x[2] * y[2])
RSub(x, y) == Rat(x[1] * y[2] - y[1] * x[2], x[2] * y[2])
RMul(x, y) == Rat(x[1] * y[1], x[2] * y[2])
\* x / y for y # 0 (the callers raise ZeroDivisionError before dividing by 0)
RDiv(x, y) == Rat(x[1] * y[2], x[2] * y[1])
RLt(x, y) == x[1] * y[2] < y[1] * x[2]
RLe(x, y) == x[1] * y[2] <= y[1] * x[2]
RIsZero(x) == x[1] = 0

\* x ** n for an integer n >= 0
RECURSIVE RPow(_, _)
RPow(x, n) == IF n = 0 THEN RInt(1) ELSE RMul(x, RPow(x, n - 1))

(* dict helpers: a dict is a sequence of [k |-> key, v |-> value] *)
Keys(d) == [i \in 1..Len(d) |-> d[i].k]
KeySet(d) == {d[i].k : i \in 1..Len(d)}
HasKey(d, k) == \E i \in 1..Len(d) : d[i].k = k
Get(d, k) == d[CHOOSE i \in 1..Len(d) : d[i].k = k].v

RECURSIVE RSumTo(_, _)
RSumTo(d, n) == IF n = 0 THEN RInt(0) ELSE RAdd(RSumTo(d, n - 1), d[n].v)
\* sum(d.values()) over rationals
RSum(d) == RSumTo(d, Len(d))

RECURSIVE ISumTo(_, _)
ISumTo(d, n) == IF n = 0 THEN 0 ELSE ISumTo(d, n - 1) + d[n].v
\* sum(d.values()) over integer counts
ISum(d) == ISumTo(d, Len(d))

\* min / max of a non-empty dict's values
RMin(d) == d[CHOOSE i \in 1..Len(d) : \A j \in 1..Len(d) : RLe(d[i].v, d[j].v)].v
RMax(d) == d[CHOOSE i \in 1..Len(d) : \A j \in 1..Len(d) : RLe(d[j].v, d[i].v)].v

(* What a call gives back: a value, or the exception it raises. *)
Ok(v) == [ok |-> TRUE, err |-> "none", val |-> v]
Raise(e) == [ok |-> FALSE, err |-> e, val |-> <<>>]

---------------------------------------------------------------------------
(* normalise_distribution *)

normalise_distribution(distribution) ==
    LET total == RSum(distribution)
    IN  IF Len(distribution) = 0 THEN Ok(<<>>)
        ELSE IF RIsZero(total) THEN Raise("ZeroDivisionError")
        ELSE Ok([i \in 1..Len(distribution) |->
                   [k |-> distribution[i].k,
                    v |-> RDiv(distribution[i].v, total)]])

---------------------------------------------------------------------------
(* extremise_distribution.  tau is a rational; the model's tau values have *)
(* an integer reciprocal, so v ** (1 / tau) is an integer power.           *)

\* 1 / tau as an integer exponent (tau > 0 with numerator 1)
InvTau(tau) == tau[2] \div tau[1]

\* extremise_distribution without `assert min(distribution.values()) >= 0`
extremise_no_min_assert(distribution, tau) ==
    IF ~RLt(RInt(0), tau) THEN Raise("AssertionError")
    ELSE IF Len(distribution) = 0 THEN Raise("ValueError")
    ELSE
      LET max_value == RMax(distribution)
      IN  IF RIsZero(max_value) THEN Raise("ZeroDivisionError")
          ELSE
            LET powered ==
                    [i \in 1..Len(distribution) |->
                       [k |-> distribution[i].k,
                        v |-> RPow(RDiv(distribution[i].v, max_value),
                                   InvTau(tau))]]
                total == RSum(powered)
            IN  IF RIsZero(total) THEN Raise("ZeroDivisionError")
                ELSE Ok([i \in 1..Len(distribution) |->
                           [k |-> distribution[i].k,
                            v |-> RDiv(powered[i].v, total)]])

\* extremise_distribution with total summed over the values before rescaling
extremise_raw_total(distribution, tau) ==
    IF ~RLt(RInt(0), tau) THEN Raise("AssertionError")
    ELSE IF Len(distribution) = 0 THEN Raise("ValueError")
    ELSE IF RLt(RMin(distribution), RInt(0)) THEN Raise("AssertionError")
    ELSE
      LET max_value == RMax(distribution)
      IN  IF RIsZero(max_value) THEN Raise("ZeroDivisionError")
          ELSE
            LET powered ==
                    [i \in 1..Len(distribution) |->
                       [k |-> distribution[i].k,
                        v |-> RPow(RDiv(distribution[i].v, max_value),
                                   InvTau(tau))]]
                total == RSum(distribution)
            IN  Ok([i \in 1..Len(distribution) |->
                      [k |-> distribution[i].k,
                       v |-> RDiv(powered[i].v, total)]])

\* extremise_distribution with min and max given a default for an empty dict
extremise_empty_ok(distribution, tau) ==
    IF ~RLt(RInt(0), tau) THEN Raise("AssertionError")
    ELSE IF Len(distribution) = 0 THEN Ok(<<>>)
    ELSE IF RLt(RMin(distribution), RInt(0)) THEN Raise("AssertionError")
    ELSE
      LET max_value == RMax(distribution)
      IN  IF RIsZero(max_value) THEN Raise("ZeroDivisionError")
          ELSE
            LET powered ==
                    [i \in 1..Len(distribution) |->
                       [k |-> distribution[i].k,
                        v |-> RPow(RDiv(distribution[i].v, max_value),
                                   InvTau(tau))]]
                total == RSum(powered)
            IN  Ok([i \in 1..Len(distribution) |->
                      [k |-> distribution[i].k,
                       v |-> RDiv(powered[i].v, total)]])

extremise_distribution(distribution, tau) ==
    IF ~RLt(RInt(0), tau) THEN Raise("AssertionError")
    ELSE IF Len(distribution) = 0 THEN Raise("ValueError")
    ELSE IF RLt(RMin(distribution), RInt(0)) THEN Raise("AssertionError")
    ELSE
      LET max_value == RMax(distribution)
      IN  IF RIsZero(max_value) THEN Raise("ZeroDivisionError")
          ELSE
            LET rescaled_distribution ==
                    [i \in 1..Len(distribution) |->
                       [k |-> distribution[i].k,
                        v |-> RDiv(distribution[i].v, max_value)]]
                powered ==
                    [i \in 1..Len(distribution) |->
                       [k |-> distribution[i].k,
                        v |-> RPow(rescaled_distribution[i].v, InvTau(tau))]]
                total == RSum(powered)
            IN  Ok([i \in 1..Len(distribution) |->
                      [k |-> distribution[i].k,
                       v |-> RDiv(powered[i].v, total)]])

---------------------------------------------------------------------------
(* compute_ucb.  A score is the exact number a + b * sqrt(s), kept as      *)
(* [a, b, s]; Sqrt folds perfect squares (0 included) into a rational.     *)

IsSquare(n) == \E r \in 0..n : r * r = n
ISqrt(n) == CHOOSE r \in 0..n : r * r = n

\* np.sqrt(n) for an integer n >= 0, as coef * sqrt(rad)
Sqrt(n) ==
    IF IsSquare(n) THEN [coef |-> ISqrt(n), rad |-> 1]
    ELSE [coef |-> 1, rad |-> n]

\* a + b * (coef * sqrt(rad)), in normal form: b = 0 implies s = 1
Surd(a, b, root) ==
    LET bb == RMul(b, RInt(root.coef))
    IN  IF root.rad = 1 THEN [a |-> RAdd(a, bb), b |-> RInt(0), s |-> 1]
        ELSE IF RIsZero(bb) THEN [a |-> a, b |-> RInt(0), s |-> 1]
        ELSE [a |-> a, b |-> bb, s |-> root.rad]

\* the sign of a + b * sqrt(s): -1, 0 or 1
SurdSign(a, b, s) ==
    LET sa == IF a[1] > 0 THEN 1 ELSE IF a[1] < 0 THEN -1 ELSE 0
        sb == IF b[1] > 0 THEN 1 ELSE IF b[1] < 0 THEN -1 ELSE 0
        a2 == RMul(a, a)
        b2s == RMul(RMul(b, b), RInt(s))
    IN  IF sb = 0 THEN sa
        ELSE IF sa = 0 THEN sb
        ELSE IF sa = sb THEN sa
        ELSE IF RLt(b2s, a2) THEN sa
        ELSE IF RLt(a2, b2s) THEN sb
        ELSE 0

\* x < y for two scores over the same radicand (or rational ones)
SurdLt(x, y) ==
    LET s == IF x.s = 1 THEN y.s ELSE x.s
    IN  SurdSign(RSub(y.a, x.a), RSub(y.b, x.b), s) = 1

\* x = q for a score x and a rational q, as real numbers
SurdEqRat(x, q) == SurdSign(RSub(x.a, q), x.b, x.s) = 0

\* compute_ucb with the 1 + N of the denominator also under the square root
compute_ucb_one_plus_sum(action_values, prior_probs, action_counts, c_puct) ==
    LET num == Sqrt(1 + ISum(action_counts))
    IN  IF \E i \in 1..Len(action_values) :
               \/ ~HasKey(prior_probs, action_values[i].k)
               \/ ~HasKey(action_counts, action_values[i].k)
        THEN Raise("KeyError")
        ELSE Ok([i \in 1..Len(action_values) |->
                   LET k == action_values[i].k
                   IN  [k |-> k,
                        v |-> Surd(action_values[i].v,
                                   RMul(RDiv(Get(prior_probs, k),
                                             RInt(1 + Get(action_counts, k))),
                                        c_puct),
                                   num)]])

compute_ucb(action_values, prior_probs, action_counts, c_puct) ==
    LET num == Sqrt(ISum(action_counts))
    IN  IF \E i \in 1..Len(action_values) :
               \/ ~HasKey(prior_probs, action_values[i].k)
               \/ ~HasKey(action_counts, action_values[i].k)
        THEN Raise("KeyError")
        ELSE Ok([i \in 1..Len(action_values) |->
                   LET k == action_values[i].k
                   IN  [k |-> k,
                        v |-> Surd(action_values[i].v,
                                   RMul(RDiv(Get(prior_probs, k),
                                             RInt(1 + Get(action_counts, k))),
                                        c_puct),
                                   num)]])

---------------------------------------------------------------------------
(* mix_dirichlet_noise.  np.random.dirichlet([alpha] * n) is a point of    *)
(* the simplex; the draw is a choice among its corners and its centre.     *)

DirichletSamples(n) ==
    IF n = 0 THEN {<<>>}
    ELSE {[i \in 1..n |-> IF i = c THEN RInt(1) ELSE RInt(0)] : c \in 1..n}
         \cup {[i \in 1..n |-> Rat(1, n)]}

\* mix_dirichlet_noise with the two weights exchanged
mix_dirichlet_noise_swapped(distribution, epsilon, noise) ==
    [i \in 1..Len(distribution) |->
       [k |-> distribution[i].k,
        v |-> RAdd(RMul(epsilon, distribution[i].v),
                   RMul(RSub(RInt(1), epsilon), noise[i]))]]

\* the dict built from zip(distribution.items(), noise) for the drawn noise
mix_dirichlet_noise(distribution, epsilon, noise) ==
    [i \in 1..Len(distribution) |->
       [k |-> distribution[i].k,
        v |-> RAdd(RMul(RSub(RInt(1), epsilon), distribution[i].v),
                   RMul(epsilon, noise[i]))]]

---------------------------------------------------------------------------
(* The game handed to mcts: a subtraction game.  A state is the number of  *)
(* tokens left, the player to move and the numbers of tokens a move may    *)
(* take, which never change in a game; the state with no token is terminal *)
(* and the player who took the last token has won.  Under Takes a move     *)
(* takes 1 or 2 tokens and every non-terminal state has a move; under      *)
(* TakesTwo a move takes 2 tokens, so the state with one token is not      *)
(* terminal and has no legal action.                                       *)

Players == {1, 2}
Other(player) == IF player = 2 THEN 1 ELSE 2
Takes == {1, 2}
TakesTwo == {2}
Games == {Takes, TakesTwo}

GameState(tokens, player, takes) ==
    [tokens |-> tokens, player |-> player, takes |-> takes]

current_player(state) == state.player
is_terminal(state) == state.tokens = 0

RECURSIVE MovesFrom(_, _)
MovesFrom(state, a) ==
    IF a > state.tokens THEN <<>>
    ELSE (IF a \in state.takes
          THEN <<[k |-> a, v |-> GameState(state.tokens - a,
                                           Other(state.player), state.takes)]>>
          ELSE <<>>)
         \o MovesFrom(state, a + 1)

\* game.legal_actions(state): the dict action -> next state
legal_actions(state) == MovesFrom(state, 1)

\* game.utility(state) of a terminal state: the value per player
utility(state) ==
    [p \in Players |-> IF p = state.player THEN RInt(-1) ELSE RInt(1)]

(* The estimator handed to mcts: a deterministic function of the state.   *)
(* It returns unnormalised weights for the actions of the state, possibly  *)
(* also for an action that is not legal in the state (evaluator.py, lines  *)
(* 36 to 38), and a value for the player to move.  "uniform" with "zero"   *)
(* is create_trivial_evaluator.                                            *)

\* the key of an action that is legal in no state
IllegalAction == 0

EvalPriors(state, shape) ==
    LET la == legal_actions(state)
        n == Len(la)
    IN  IF shape = "uniform" THEN [i \in 1..n |-> [k |-> la[i].k, v |-> Rat(1, n)]]
        ELSE IF shape = "first"
             THEN [i \in 1..n |-> [k |-> la[i].k,
                                   v |-> IF i = 1 THEN RInt(2) ELSE RInt(1)]]
        ELSE [i \in 1..n |-> [k |-> la[i].k, v |-> RInt(1)]]
             \o <<[k |-> IllegalAction, v |-> RInt(1)]>>

EvalValue(state, rule) ==
    IF rule = "zero" THEN RInt(0)
    ELSE IF state.tokens % 2 = 1 THEN RInt(1) ELSE RInt(-1)

Estimators ==
    {[shape |-> "uniform", rule |-> "zero"],
     [shape |-> "first", rule |-> "parity"],
     [shape |-> "extra", rule |-> "parity"]}

\* estimator(state): (prior_probs, value)
Estimate(estimator, state) ==
    [prior_probs |-> EvalPriors(state, estimator.shape),
     value |-> EvalValue(state, estimator.rule)]

---------------------------------------------------------------------------
(* MCTSNode.  The tree is a function from a node's path (the actions from  *)
(* the first root down to it) to the node's fields; children holds the     *)
(* keys of the children dict in insertion order, and the child under       *)
(* action a of the node at path p is the node at path Append(p, a).        *)

\* a node that counts its creation as a visit
MCTSNodeCountedOnCreation(game_state, player, terminal) ==
    [Q |-> RInt(0), W |-> RInt(0), N |-> 1,
     is_terminal |-> terminal, player |-> player,
     children |-> <<>>, prior_probs |-> <<>>, game_state |-> game_state]

MCTSNode(game_state, player, terminal) ==
    [Q |-> RInt(0), W |-> RInt(0), N |-> 0,
     is_terminal |-> terminal, player |-> player,
     children |-> <<>>, prior_probs |-> <<>>, game_state |-> game_state]

is_leaf(node) == Len(node.children) = 0

\* the child of the node at path p under its i-th action
Child(t, p, i) == t[Append(p, t[p].children[i])]

\* {action: child.Q for action, child in node.children.items()}
ActionValues(t, p) ==
    [i \in 1..Len(t[p].children) |->
       [k |-> t[p].children[i], v |-> Child(t, p, i).Q]]

\* {action: child.N for action, child in node.children.items()}
ActionCounts(t, p) ==
    [i \in 1..Len(t[p].children) |->
       [k |-> t[p].children[i], v |-> Child(t, p, i).N]]

\* expand without `assert self.is_leaf()`
expand_no_assert(t, p, prior_probs, child_states, child_players, child_terminals) ==
    LET kids == {Append(p, child_states[i].k) : i \in 1..Len(child_states)}
    IN  Ok([q \in DOMAIN t \cup kids |->
              IF q = p
              THEN [t[p] EXCEPT !.prior_probs = prior_probs,
                                !.children = Keys(child_states)]
              ELSE IF q \in kids
              THEN LET a == q[Len(q)]
                   IN  MCTSNode(Get(child_states, a), Get(child_players, a),
                                Get(child_terminals, a))
              ELSE t[q]])

\* expand that stores the prior probabilities and creates no child
expand_no_children(t, p, prior_probs, child_states, child_players, child_terminals) ==
    IF ~is_leaf(t[p]) THEN Raise("AssertionError")
    ELSE Ok([t EXCEPT ![p] = [t[p] EXCEPT !.prior_probs = prior_probs]])

expand(t, p, prior_probs, child_states, child_players, child_terminals) ==
    IF ~is_leaf(t[p]) THEN Raise("AssertionError")
    ELSE IF \E i \in 1..Len(child_states) :
                \/ ~HasKey(child_players, child_states[i].k)
                \/ ~HasKey(child_terminals, child_states[i].k)
    THEN Raise("KeyError")
    ELSE
      LET kids == {Append(p, child_states[i].k) : i \in 1..Len(child_states)}
      IN  Ok([q \in DOMAIN t \cup kids |->
                IF q = p
                THEN [t[p] EXCEPT !.prior_probs = prior_probs,
                                  !.children = Keys(child_states)]
                ELSE IF q \in kids
                THEN LET a == q[Len(q)]
                     IN  MCTSNode(Get(child_states, a), Get(child_players, a),
                                  Get(child_terminals, a))
                ELSE t[q]])

---------------------------------------------------------------------------
(* select.  The walk from a node down to a leaf; every Dirichlet draw on   *)
(* the way is a choice, so select gives the set of its possible results.   *)

\* the last of the keys with the greatest score
ArgMaxLast(ucb) ==
    ucb[CHOOSE i \in 1..Len(ucb) :
          /\ \A j \in 1..Len(ucb) : ~SurdLt(ucb[i].v, ucb[j].v)
          /\ \A j \in (i + 1)..Len(ucb) : SurdLt(ucb[j].v, ucb[i].v)].k

\* max(upper_confidence_bounds, key=upper_confidence_bounds.get): the first
\* key, in the dict's order, whose score no other key's score exceeds
ArgMax(ucb) ==
    ucb[CHOOSE i \in 1..Len(ucb) :
          /\ \A j \in 1..Len(ucb) : ~SurdLt(ucb[i].v, ucb[j].v)
          /\ \A j \in 1..(i - 1) : SurdLt(ucb[j].v, ucb[i].v)].k

\* a pass of the loop that mixes the noise in with weight 1/4, whatever
\* dirichlet_epsilon the caller gave
SelectStepFixedEpsilon(t, p, c_puct, dirichlet_epsilon, noise) ==
    LET prior_probs == mix_dirichlet_noise(t[p].prior_probs, Rat(1, 4), noise)
        upper_confidence_bounds ==
            compute_ucb(ActionValues(t, p), prior_probs, ActionCounts(t, p),
                        c_puct)
    IN  IF upper_confidence_bounds.ok
        THEN Ok(ArgMax(upper_confidence_bounds.val))
        ELSE upper_confidence_bounds

\* one pass of the while loop at a non-leaf node, for the drawn noise
SelectStep(t, p, c_puct, dirichlet_epsilon, noise) ==
    LET action_values == ActionValues(t, p)
        action_counts == ActionCounts(t, p)
        prior_probs == mix_dirichlet_noise(t[p].prior_probs,
                                           dirichlet_epsilon, noise)
        upper_confidence_bounds ==
            compute_ucb(action_values, prior_probs, action_counts, c_puct)
    IN  IF upper_confidence_bounds.ok
        THEN Ok(ArgMax(upper_confidence_bounds.val))
        ELSE upper_confidence_bounds

\* a mix_dirichlet_noise that asks for no sample when epsilon is 0
NoiseDrawsUnlessZero(distribution, epsilon) ==
    IF RIsZero(epsilon) THEN 0 ELSE 1

\* the samples one call of mix_dirichlet_noise asks np.random.dirichlet
\* for: one, whatever the distribution and epsilon
NoiseDraws(distribution, epsilon) == 1

\* select with `if` for `while`: at most one step down from the start
select_one_step(t, start, c_puct, dirichlet_epsilon) ==
    IF is_leaf(t[start])
    THEN {Ok([nodes |-> <<start>>, actions |-> <<>>, draws |-> 0])}
    ELSE {LET step == SelectStep(t, start, c_puct, dirichlet_epsilon, noise)
          IN  IF ~step.ok THEN step
              ELSE Ok([nodes |-> <<start, Append(start, step.val)>>,
                       actions |-> <<step.val>>,
                       draws |-> NoiseDraws(t[start].prior_probs,
                                            dirichlet_epsilon)]) :
            noise \in DirichletSamples(Len(t[start].prior_probs))}

\* a result holds the nodes (as paths) and the actions select returns, and
\* the number of Dirichlet samples drawn on the way
RECURSIVE select(_, _, _, _)
select(t, start, c_puct, dirichlet_epsilon) ==
    IF is_leaf(t[start])
    THEN {Ok([nodes |-> <<start>>, actions |-> <<>>, draws |-> 0])}
    ELSE UNION {
           LET step == SelectStep(t, start, c_puct, dirichlet_epsilon, noise)
           IN  IF ~step.ok THEN {step}
               ELSE {IF rest.ok
                     THEN Ok([nodes |-> <<start>> \o rest.val.nodes,
                              actions |-> <<step.val>> \o rest.val.actions,
                              draws |-> NoiseDraws(t[start].prior_probs,
                                                   dirichlet_epsilon)
                                        + rest.val.draws])
                     ELSE rest :
                       rest \in select(t, Append(start, step.val),
                                       c_puct, dirichlet_epsilon)} :
           noise \in DirichletSamples(Len(t[start].prior_probs))}

---------------------------------------------------------------------------
(* backup.  parent_player is 0 for None; 0 and None are both falsy in      *)
(* `if parent_player:`.                                                    *)

\* backup that reads the value of the node's own player
RECURSIVE BackupOwnPlayer(_, _, _, _, _)
BackupOwnPlayer(t, nodes, i, parent_player, values) ==
    IF i > Len(nodes) THEN t
    ELSE
      LET node == t[nodes[i]]
          n1 == node.N + 1
          w1 == IF parent_player # 0
                THEN RAdd(node.W, values[node.player]) ELSE node.W
          q1 == IF parent_player # 0 THEN RDiv(w1, RInt(n1)) ELSE node.Q
          t1 == [t EXCEPT ![nodes[i]] =
                    [node EXCEPT !.N = n1, !.W = w1, !.Q = q1]]
      IN  BackupOwnPlayer(t1, nodes, i + 1, node.player, values)

RECURSIVE BackupFrom(_, _, _, _, _)
BackupFrom(t, nodes, i, parent_player, values) ==
    IF i > Len(nodes) THEN t
    ELSE
      LET node == t[nodes[i]]
          n1 == node.N + 1
          w1 == IF parent_player # 0
                THEN RAdd(node.W, values[parent_player]) ELSE node.W
          q1 == IF parent_player # 0 THEN RDiv(w1, RInt(n1)) ELSE node.Q
          t1 == [t EXCEPT ![nodes[i]] =
                    [node EXCEPT !.N = n1, !.W = w1, !.Q = q1]]
      IN  BackupFrom(t1, nodes, i + 1, node.player, values)

\* backup that starts at the second node of the path
backup_from_second(t, nodes, values) ==
    BackupFrom(t, nodes, 2, t[nodes[1]].player, values)

\* backup whose parent_player starts as the player of the first node
backup_from_own_player(t, nodes, values) ==
    BackupFrom(t, nodes, 1, t[nodes[1]].player, values)

\* backup that takes the first node for one reached from the other player
backup_with_root_edge(t, nodes, values) ==
    BackupFrom(t, nodes, 1, Other(t[nodes[1]].player), values)

backup(t, nodes, values) == BackupFrom(t, nodes, 1, 0, values)

---------------------------------------------------------------------------
(* mcts.  One pass of the for loop, for a result of select and for what    *)
(* the estimator returns; then the code after the loop.                    *)

ChildPlayers(child_states) ==
    [i \in 1..Len(child_states) |->
       [k |-> child_states[i].k, v |-> current_player(child_states[i].v)]]

ChildTerminals(child_states) ==
    [i \in 1..Len(child_states) |->
       [k |-> child_states[i].k, v |-> is_terminal(child_states[i].v)]]

\* lines 78 to 108: evaluate the leaf at path p and expand it
EvaluateAndExpand(t, p, estimate) ==
    LET child_states == legal_actions(t[p].game_state)
        prior_probs == normalise_distribution(estimate.prior_probs)
    IN  IF ~prior_probs.ok THEN prior_probs
        ELSE expand(t, p, prior_probs.val, child_states,
                    ChildPlayers(child_states), ChildTerminals(child_states))

\* {player: value, other_player: -value}
ValueMap(player, value) ==
    [p \in {player, Other(player)} |->
       IF p = player THEN value ELSE RSub(RInt(0), value)]

\* values taken from the estimator at every leaf, terminal or not
PassValuesFromEstimate(t, p, estimate) ==
    ValueMap(current_player(t[p].game_state), estimate.value)

\* the value map of the pass whose leaf is at path p: built from the
\* estimator's value (lines 81 to 84), or game.utility of a terminal leaf
\* (line 113)
PassValues(t, p, estimate) ==
    IF ~t[p].is_terminal
    THEN ValueMap(current_player(t[p].game_state), estimate.value)
    ELSE utility(t[p].game_state)

MctsIteration(t, sel, estimate) ==
    IF ~sel.ok THEN sel
    ELSE
      LET nodes == sel.val.nodes
          p == nodes[Len(nodes)]
          leaf == t[p]
      IN  IF ~leaf.is_terminal
          THEN LET ex == EvaluateAndExpand(t, p, estimate)
               IN  IF ~ex.ok THEN ex
                   ELSE Ok(backup(ex.val, nodes, PassValues(t, p, estimate)))
          ELSE Ok(backup(t, nodes, PassValues(t, p, estimate)))

\* an estimator called on the leaf of every pass
EvaluatorCallsOnEveryLeaf(t, sel) ==
    IF sel.ok THEN {sel.val.nodes[Len(sel.val.nodes)]} ELSE {}

\* the nodes whose state the pass hands to the estimator (line 78): the
\* leaf, when it is not terminal
EvaluatorCalls(t, sel) ==
    IF sel.ok /\ ~t[sel.val.nodes[Len(sel.val.nodes)]].is_terminal
    THEN {sel.val.nodes[Len(sel.val.nodes)]}
    ELSE {}

\* the nodes whose state the pass hands to game.utility (line 113): the
\* leaf, when it is terminal
UtilityCalls(t, sel) ==
    IF sel.ok /\ t[sel.val.nodes[Len(sel.val.nodes)]].is_terminal
    THEN {sel.val.nodes[Len(sel.val.nodes)]}
    ELSE {}

\* the nodes expand is called on in the pass: the leaf, when it is not
\* terminal and normalise_distribution has returned
ExpandCalls(t, sel, estimate) ==
    IF /\ sel.ok
       /\ ~t[sel.val.nodes[Len(sel.val.nodes)]].is_terminal
       /\ normalise_distribution(estimate.prior_probs).ok
    THEN {sel.val.nodes[Len(sel.val.nodes)]}
    ELSE {}

\* the counts of ActionCounts as float values
AsFloats(d) == [i \in 1..Len(d) |-> [k |-> d[i].k, v |-> RInt(d[i].v)]]

\* the code after the loop with child.Q collected in place of child.N
MctsResultFromQ(t, root, tau) ==
    extremise_distribution(ActionValues(t, root), tau)

\* lines 118 to 120
MctsResult(t, root, tau) ==
    extremise_distribution(AsFloats(ActionCounts(t, root)), tau)

---------------------------------------------------------------------------
(* The state machine of mcts: searches run one after another, the first   *)
(* on the root and a later one on the root of the search before it or on   *)
(* one of that root's children (a reused subtree).                         *)

CPucts == {RInt(1), RInt(2)}
Epsilons == {RInt(0), Rat(1, 4)}
\* tau of a search: within (0, 1], as the docstring of mcts asks
Taus == {RInt(1), Rat(1, 2)}

\* Besides the call of mcts under way (or the last one), a search records
\* what its passes did: sel is the result of the last select; expands,
\* evals and utils are the numbers of calls so far of expand, of the
\* estimator and of game.utility for each node; nEvals and nUtils are the
\* calls of the estimator and of game.utility in this call of mcts.
NoSelection == [nodes |-> <<>>, actions |-> <<>>, draws |-> 0]

NoSearch ==
    [pc |-> "idle", passes |-> 0, root |-> <<>>, iters |-> 0, i |-> 0,
     c_puct |-> RInt(1), tau |-> RInt(1), epsilon |-> RInt(0),
     estimator |-> [shape |-> "uniform", rule |-> "zero"],
     startN |-> 0, startLeaf |-> TRUE, startSum |-> 0,
     out |-> Ok(<<>>),
     sel |-> NoSelection, expands |-> [p \in {<<>>} |-> 0],
     evals |-> [p \in {<<>>} |-> 0], utils |-> [p \in {<<>>} |-> 0],
     nEvals |-> 0, nUtils |-> 0]

\* the calls so far for each node, after those of one more pass
CountExpands(expands, t, calls) ==
    [p \in DOMAIN t |->
       (IF p \in DOMAIN expands THEN expands[p] ELSE 0)
       + (IF p \in calls THEN 1 ELSE 0)]

NoCall ==
    [seq |-> 0, op |-> "none", node |-> <<>>, nodes |-> <<>>,
     values |-> [p \in Players |-> RInt(0)], out |-> Ok(<<>>)]

NoCase ==
    [fn |-> "none", d |-> <<>>, tau |-> RInt(1), p |-> <<>>, n |-> <<>>,
     c_puct |-> RInt(1), epsilon |-> RInt(0)]

NoResult == [fn |-> "none", noise |-> <<>>, out |-> Ok(<<>>)]

\* the search s after its loop has ended: the return of mcts, or its raise
Finish(s, t) ==
    IF s.pc = "running" /\ s.i = s.iters
    THEN LET r == MctsResult(t, s.root, s.tau)
         IN  [s EXCEPT !.pc = IF r.ok THEN "returned" ELSE "raised", !.out = r]
    ELSE s

\* the nodes a search may start on
Roots ==
    {search.root}
    \cup {Append(search.root, tree[search.root].children[i]) :
            i \in 1..Len(tree[search.root].children)}

\* The estimator and the hyperparameters are those of one player: every
\* search of a run is given the same ones.
Init ==
    /\ \E tokens \in 0..MaxTokens, takes \in Games :
         tree = [p \in {<<>>} |->
                   MCTSNode(GameState(tokens, 1, takes), 1,
                            is_terminal(GameState(tokens, 1, takes)))]
    /\ \E c \in CPucts, tau \in Taus, eps \in Epsilons, e \in Estimators :
         search = [NoSearch EXCEPT !.c_puct = c, !.tau = tau,
                                   !.epsilon = eps, !.estimator = e]
    /\ last = NoCall
    /\ fnIn = NoCase
    /\ fnOut = NoResult

\* mcts(starting_node, game, estimator, mcts_iters, c_puct, tau, epsilon, alpha)
\* is called: the loop runs no pass when mcts_iters is 0
StartMcts ==
    /\ search.pc # "running"
    /\ \E root \in Roots, iters \in 0..(MaxPasses - search.passes) :
         search' = Finish([search EXCEPT
                             !.pc = "running", !.root = root,
                             !.iters = iters, !.i = 0,
                             !.startN = tree[root].N,
                             !.startLeaf = is_leaf(tree[root]),
                             !.startSum = ISum(ActionCounts(tree, root)),
                             !.nEvals = 0, !.nUtils = 0,
                             !.out = Ok(<<>>)], tree)
    /\ UNCHANGED <<tree, last, fnIn, fnOut>>

\* one pass of the for loop of mcts, and the return after the last one
MctsIter ==
    /\ search.pc = "running"
    /\ \E sel \in select(tree, search.root, search.c_puct, search.epsilon) :
         LET leafState ==
                 IF sel.ok
                 THEN tree[sel.val.nodes[Len(sel.val.nodes)]].game_state
                 ELSE tree[search.root].game_state
             estimate == Estimate(search.estimator, leafState)
             r == MctsIteration(tree, sel, estimate)
             t1 == IF r.ok THEN r.val ELSE tree
             s1 == [search EXCEPT
                      !.sel = IF sel.ok THEN sel.val ELSE @,
                      !.expands = CountExpands(@, t1,
                                               ExpandCalls(tree, sel, estimate)),
                      !.evals = CountExpands(@, t1, EvaluatorCalls(tree, sel)),
                      !.utils = CountExpands(@, t1, UtilityCalls(tree, sel)),
                      !.nEvals = @ + Cardinality(EvaluatorCalls(tree, sel)),
                      !.nUtils = @ + Cardinality(UtilityCalls(tree, sel))]
         IN  /\ tree' = t1
             /\ search' = IF r.ok
                           THEN Finish([s1 EXCEPT !.i = @ + 1,
                                                  !.passes = @ + 1], t1)
                           ELSE [s1 EXCEPT !.pc = "raised", !.out = r]
    /\ UNCHANGED <<last, fnIn, fnOut>>

Next == StartMcts \/ MctsIter

Spec == Init /\ [][Next]_vars

---------------------------------------------------------------------------
(* Direct calls of expand and backup, outside any search, on a tree that   *)
(* starts as one fresh node.                                               *)

InitNode ==
    /\ \E tokens \in 0..MaxTokens, takes \in Games :
         tree = [p \in {<<>>} |->
                   MCTSNode(GameState(tokens, 1, takes), 1,
                            is_terminal(GameState(tokens, 1, takes)))]
    /\ search = NoSearch
    /\ last = NoCall
    /\ fnIn = NoCase
    /\ fnOut = NoResult

\* node.expand(...) with the arguments mcts would give it for the node
CallExpand ==
    /\ last.seq < MaxCalls
    /\ \E p \in DOMAIN tree, e \in Estimators :
         LET r == EvaluateAndExpand(tree, p, Estimate(e, tree[p].game_state))
         IN  /\ tree' = IF r.ok THEN r.val ELSE tree
             /\ last' = [NoCall EXCEPT
                           !.seq = last.seq + 1, !.op = "expand", !.node = p,
                           !.out = IF r.ok THEN Ok(<<>>) ELSE r]
    /\ UNCHANGED <<search, fnIn, fnOut>>

\* the value handed to backup for player 1; the other player gets its
\* negation
BackupValues == {RInt(1), Rat(-1, 2)}

\* the paths of the tree t: a node, then a child of it, and so on, from any
\* node down to any node below it
Chains(t) ==
    {[i \in 1..(Len(q) - Len(p) + 1) |-> SubSeq(q, 1, Len(p) + i - 1)] :
       <<p, q>> \in {pq \in (DOMAIN t) \X (DOMAIN t) :
                       /\ Len(pq[1]) <= Len(pq[2])
                       /\ SubSeq(pq[2], 1, Len(pq[1])) = pq[1]}}

\* backup(nodes, values) on a path of the tree
CallBackup ==
    /\ last.seq < MaxCalls
    /\ \E nodes \in Chains(tree), value \in BackupValues :
         /\ tree' = backup(tree, nodes, ValueMap(1, value))
         /\ last' = [NoCall EXCEPT
                       !.seq = last.seq + 1, !.op = "backup",
                       !.node = nodes[1], !.nodes = nodes,
                       !.values = ValueMap(1, value)]
    /\ UNCHANGED <<search, fnIn, fnOut>>

NextNode == CallExpand \/ CallBackup

SpecNode == InitNode /\ [][NextNode]_vars

---------------------------------------------------------------------------
(* The pure helpers, each applied once to inputs drawn from bounded sets.  *)

DistValues == {RInt(-1), RInt(0), RInt(1), RInt(2)}
QValues == {RInt(-1), Rat(1, 2)}
PriorValues == {Rat(1, 2), RInt(1)}
FnTaus == {RInt(-1), RInt(0), Rat(1, 2), RInt(1)}
FnCPucts == {RInt(1), RInt(2)}
FnEpsilons == {RInt(0), Rat(1, 4), RInt(1)}

\* the dicts with keys 1..n, in this order, and values in S
DictsOver(S, n) == {[i \in 1..n |-> [k |-> i, v |-> f[i]]] : f \in [1..n -> S]}
Dists == UNION {DictsOver(DistValues, n) : n \in 0..MaxLen}

FnCases ==
    {[NoCase EXCEPT !.fn = "normalise", !.d = d] : d \in Dists}
    \cup {[NoCase EXCEPT !.fn = "extremise", !.d = d, !.tau = tau] :
            d \in Dists, tau \in FnTaus}
    \cup {[NoCase EXCEPT !.fn = "mix", !.d = d, !.epsilon = eps] :
            d \in Dists, eps \in FnEpsilons}
    \cup UNION {{[NoCase EXCEPT !.fn = "compute_ucb", !.d = q, !.p = p,
                                !.n = n, !.c_puct = c] :
                   q \in DictsOver(QValues, len),
                   p \in DictsOver(PriorValues, len),
                   n \in DictsOver(0..MaxCount, len),
                   c \in FnCPucts} : len \in 0..MaxLen}

InitFn ==
    /\ tree = [p \in {<<>>} |-> MCTSNode(GameState(0, 1, Takes), 1, TRUE)]
    /\ search = NoSearch
    /\ last = NoCall
    /\ fnIn \in FnCases
    /\ fnOut = NoResult

CallNormalise ==
    /\ fnIn.fn = "normalise" /\ fnOut.fn = "none"
    /\ fnOut' = [fn |-> "normalise", noise |-> <<>>,
                 out |-> normalise_distribution(fnIn.d)]
    /\ UNCHANGED <<tree, search, last, fnIn>>

CallExtremise ==
    /\ fnIn.fn = "extremise" /\ fnOut.fn = "none"
    /\ fnOut' = [fn |-> "extremise", noise |-> <<>>,
                 out |-> extremise_distribution(fnIn.d, fnIn.tau)]
    /\ UNCHANGED <<tree, search, last, fnIn>>

CallComputeUcb ==
    /\ fnIn.fn = "compute_ucb" /\ fnOut.fn = "none"
    /\ fnOut' = [fn |-> "compute_ucb", noise |-> <<>>,
                 out |-> compute_ucb(fnIn.d, fnIn.p, fnIn.n, fnIn.c_puct)]
    /\ UNCHANGED <<tree, search, last, fnIn>>

CallMixNoise ==
    /\ fnIn.fn = "mix" /\ fnOut.fn = "none"
    /\ \E noise \in DirichletSamples(Len(fnIn.d)) :
         fnOut' = [fn |-> "mix", noise |-> noise,
                   out |-> Ok(mix_dirichlet_noise(fnIn.d, fnIn.epsilon, noise))]
    /\ UNCHANGED <<tree, search, last, fnIn>>

NextFn == CallNormalise \/ CallExtremise \/ CallComputeUcb \/ CallMixNoise

SpecFn == InitFn /\ [][NextFn]_vars

---------------------------------------------------------------------------
(* Noughts and crosses (alphago/noughts_and_crosses.py).  A state is a     *)
(* tuple of nine squares read row by row; a square holds 1 (a nought),     *)
(* -1 (a cross) or np.nan (empty).  NaN is the code that stands for np.nan *)
(* here: it is no number of the game, np.isnan is the test for it and      *)
(* np.nansum counts it as zero.                                            *)

NaN == 2
Squares == {1, -1, NaN}

isnan(x) == x = NaN
\* the term a square adds to a np.nansum
NanToZero(x) == IF isnan(x) THEN 0 ELSE x

\* np.array(state).reshape(3, 3)[row_i][col_i], rows and columns from 0
BoardAt(state, row_i, col_i) == state[3 * row_i + col_i + 1]

\* np.nansum of three squares
nansum(a, b, c) == NanToZero(a) + NanToZero(b) + NanToZero(c)

\* the minor diagonal without np.fliplr: the major diagonal a second time
minor_diagonal_no_flip(state) ==
    nansum(BoardAt(state, 0, 0), BoardAt(state, 1, 1), BoardAt(state, 2, 2))

\* np.nansum(np.fliplr(board).diagonal())
minor_diagonal(state) ==
    nansum(BoardAt(state, 0, 2), BoardAt(state, 1, 1), BoardAt(state, 2, 0))

\* _calculate_line_sums(state): horizontals, verticals, major diagonal,
\* minor diagonal, concatenated in this order
calculate_line_sums(state) ==
    LET horizontals ==
            [r \in 1..3 |-> nansum(BoardAt(state, r - 1, 0),
                                   BoardAt(state, r - 1, 1),
                                   BoardAt(state, r - 1, 2))]
        verticals ==
            [c \in 1..3 |-> nansum(BoardAt(state, 0, c - 1),
                                   BoardAt(state, 1, c - 1),
                                   BoardAt(state, 2, c - 1))]
        major_diagonal ==
            nansum(BoardAt(state, 0, 0), BoardAt(state, 1, 1),
                   BoardAt(state, 2, 2))
    IN  horizontals \o verticals \o <<major_diagonal>>
        \o <<minor_diagonal(state)>>

\* np.any(np.isnan(state))
AnyNan(state) == \E i \in DOMAIN state : isnan(state[i])

\* noughts_and_crosses.is_terminal(state)
nac_is_terminal(state) ==
    IF ~AnyNan(state) THEN TRUE
    ELSE LET line_sums == calculate_line_sums(state)
         IN  \E i \in DOMAIN line_sums : Abs(line_sums[i]) = 3

\* noughts_and_crosses.utility(state); an Outcome is the pair
\* <<player1_score, player2_score>>
nac_utility(state) ==
    LET line_sums == calculate_line_sums(state)
    IN  IF \E i \in DOMAIN line_sums : line_sums[i] = 3 THEN Ok(<<1, -1>>)
        ELSE IF \E i \in DOMAIN line_sums : line_sums[i] = -3
        THEN Ok(<<-1, 1>>)
        ELSE IF ~AnyNan(state) THEN Ok(<<0, 0>>)
        ELSE Raise("ValueError")

\* the index with row and column taken for one another
flattened_index_transposed(row_i, col_i) == 3 * col_i + row_i + 1

\* flattened_index = 3 * row_i + col_i, on squares counted from 1
flattened_index(row_i, col_i) == 3 * row_i + col_i + 1

\* tuple(zip(*np.where(np.isnan(board)))): the empty squares as
\* <<row_i, col_i>>, row by row
RECURSIVE AvailableFrom(_, _)
AvailableFrom(state, i) ==
    IF i > Len(state) THEN <<>>
    ELSE (IF isnan(state[i]) THEN <<(<<(i - 1) \div 3, (i - 1) % 3>>)>>
          ELSE <<>>)
         \o AvailableFrom(state, i + 1)

available_squares(state) == AvailableFrom(state, 1)

\* noughts_and_crosses.next_states(state): the dict square -> next state
next_states(state) ==
    IF nac_is_terminal(state) THEN Raise("ValueError")
    ELSE LET squares == available_squares(state)
         IN  Ok([j \in 1..Len(squares) |->
                   [k |-> squares[j],
                    v |-> [state EXCEPT
                             ![flattened_index(squares[j][1],
                                               squares[j][2])] = 1]]])

\* The three functions, each applied once to a state drawn from all the
\* tuples of nine squares.
NacStates == [1..9 -> Squares]

InitNac ==
    /\ tree = [p \in {<<>>} |-> MCTSNode(GameState(0, 1, Takes), 1, TRUE)]
    /\ search = NoSearch
    /\ last = NoCall
    /\ \E state \in NacStates : fnIn = [NoCase EXCEPT !.fn = "nac", !.d = state]
    /\ fnOut = NoResult

CallIsTerminal ==
    /\ fnIn.fn = "nac" /\ fnOut.fn = "none"
    /\ fnOut' = [fn |-> "is_terminal", noise |-> <<>>,
                 out |-> Ok(nac_is_terminal(fnIn.d))]
    /\ UNCHANGED <<tree, search, last, fnIn>>

CallUtility ==
    /\ fnIn.fn = "nac" /\ fnOut.fn = "none"
    /\ fnOut' = [fn |-> "utility", noise |-> <<>>, out |-> nac_utility(fnIn.d)]
    /\ UNCHANGED <<tree, search, last, fnIn>>

CallNextStates ==
    /\ fnIn.fn = "nac" /\ fnOut.fn = "none"
    /\ fnOut' = [fn |-> "next_states", noise |-> <<>>,
                 out |-> next_states(fnIn.d)]
    /\ UNCHANGED <<tree, search, last, fnIn>>

NextNac == CallIsTerminal \/ CallUtility \/ CallNextStates

SpecNac == InitNac /\ [][NextNac]_vars

---------------------------------------------------------------------------
(* The claims about the mcts driver.  A search is over when its pc is      *)
(* "returned" (mcts gave back a dict, search.out.val) or "raised".         *)

Finished == search.pc \in {"returned", "raised"}
Root == tree[search.root]
ChildSum == ISum(ActionCounts(tree, search.root))

\* C1 as stated: after a completed search root.N == iterations and the
\* children's N sum to iterations - 1.
C1_VisitCountsAreIterations ==
    search.pc = "returned"
    => (Root.N = search.iters /\ ChildSum = search.iters - 1)

\* C1 amended: a completed search adds iterations to root.N, and adds to
\* the sum of the children's N iterations - 1 when the root was unexpanded
\* at the start and iterations when it was expanded; on a fresh root
\* (N == 0, no children) root.N == iterations and the sum == iterations - 1.
C1_VisitCountsGrowByIterations ==
    search.pc = "returned"
    => (/\ Root.N = search.startN + search.iters
        /\ ChildSum = search.startSum + search.iters
                        - (IF search.startLeaf THEN 1 ELSE 0)
        /\ (search.startN = 0 /\ search.startLeaf)
             => (Root.N = search.iters /\ ChildSum = search.iters - 1))

\* a search of three or more iterations on a fresh root has returned
C1_Witness ==
    /\ search.pc = "returned"
    /\ search.startN = 0 /\ search.startLeaf
    /\ search.iters >= 3
    /\ Root.N = search.iters

\* the dict d has the keys of the legal actions of the root, in their order,
\* and its values sum to 1
IsRootDistribution(d) ==
    /\ Keys(d) = Keys(legal_actions(Root.game_state))
    /\ RSum(d) = RInt(1)

C3_TerminalRootRaises ==
    (search.pc # "idle" /\ Root.is_terminal)
    => (/\ search.pc # "returned"
        /\ search.pc = "running" => search.i < search.iters
        /\ search.pc = "raised"
             => (search.i = search.iters /\ search.out.err = "ValueError"))

\* a search of two or more iterations on a terminal root has raised
C3_Witness ==
    /\ search.pc = "raised"
    /\ Root.is_terminal
    /\ search.iters >= 2
    /\ Root.N >= 2

\* C4: mcts with mcts_iters == 0 raises and never returns, whatever root it
\* is given.  (On a root whose children have visits it returns the
\* distribution of these visits.)
C4_ZeroIterationsRaises ==
    (Finished /\ search.iters = 0) => search.pc = "raised"

---------------------------------------------------------------------------
(* The claims about the pure helpers and about expand.                     *)

AllZero(d) == \A i \in 1..Len(d) : RIsZero(d[i].v)
AllPositive(d) == \A i \in 1..Len(d) : RLt(RInt(0), d[i].v)
SomeNegative(d) == \E i \in 1..Len(d) : RLt(d[i].v, RInt(0))

\* C5: expand called on a node that has children raises (AssertionError)
\* and leaves the tree, so the node's children and prior_probs, unchanged.
C5_ExpandOnNonLeafRaises ==
    [][(/\ last'.seq # last.seq
        /\ last'.op = "expand"
        /\ ~is_leaf(tree[last'.node]))
       => (/\ last'.out.err = "AssertionError"
           /\ tree'[last'.node].children = tree[last'.node].children
           /\ tree'[last'.node].prior_probs = tree[last'.node].prior_probs
           /\ tree' = tree)]_vars

\* an expand call on an expanded node has raised
C5_Witness ==
    /\ last.op = "expand"
    /\ last.out.err = "AssertionError"
    /\ Len(tree[last.node].children) > 0
    /\ Len(tree[last.node].prior_probs) > 0

\* C6: normalise_distribution and extremise_distribution both raise on an
\* empty dict and on a non-empty dict of zeros; none of the four calls
\* returns.  (normalise_distribution({}) returns {}.)
C6_EmptyOrZeroRaises ==
    (/\ fnOut.fn \in {"normalise", "extremise"}
     /\ (Len(fnIn.d) = 0 \/ AllZero(fnIn.d)))
    => ~fnOut.out.ok

\* C7: extremise_distribution raises, and returns nothing, when tau <= 0 or
\* some value of the input is negative.
C7_ExtremiseRaisesOnBadInput ==
    (/\ fnOut.fn = "extremise"
     /\ (RLe(fnIn.tau, RInt(0)) \/ SomeNegative(fnIn.d)))
    => (~fnOut.out.ok /\ fnOut.out.err = "AssertionError"
        /\ fnOut.out.val = <<>>)

\* extremise has raised on a dict with a negative value whose largest value
\* is positive, for a tau > 0
C7_Witness ==
    /\ fnOut.fn = "extremise"
    /\ RLt(RInt(0), fnIn.tau)
    /\ SomeNegative(fnIn.d)
    /\ Len(fnIn.d) > 1
    /\ RLt(RInt(0), RMax(fnIn.d))
    /\ ~fnOut.out.ok

C9_UcbIsQWhenUnvisited ==
    (/\ fnOut.fn = "compute_ucb"
     /\ \A i \in 1..Len(fnIn.n) : fnIn.n[i].v = 0)
    => (/\ fnOut.out.ok
        /\ Len(fnOut.out.val) = Len(fnIn.d)
        /\ \A i \in 1..Len(fnIn.d) :
             /\ fnOut.out.val[i].k = fnIn.d[i].k
             /\ SurdEqRat(fnOut.out.val[i].v, fnIn.d[i].v))

\* compute_ucb has returned for two unvisited actions of different priors
C9_Witness ==
    /\ fnOut.fn = "compute_ucb"
    /\ Len(fnIn.d) > 1
    /\ \A i \in 1..Len(fnIn.n) : fnIn.n[i].v = 0
    /\ fnIn.p[1].v # fnIn.p[2].v
    /\ ~RIsZero(fnIn.c_puct)
    /\ fnOut.out.ok

\* C10: mix_dirichlet_noise(d, 0, alpha) returns d's value for every key of
\* d, whatever sample is drawn.
C10_MixWithZeroEpsilonIsIdentity ==
    (fnOut.fn = "mix" /\ RIsZero(fnIn.epsilon))
    => (/\ fnOut.out.ok
        /\ Len(fnOut.out.val) = Len(fnIn.d)
        /\ \A i \in 1..Len(fnIn.d) :
             /\ fnOut.out.val[i].k = fnIn.d[i].k
             /\ fnOut.out.val[i].v = fnIn.d[i].v)

\* mix_dirichlet_noise(d, 0, alpha) has returned after a draw that differs
\* from d in every component
C10_Witness ==
    /\ fnOut.fn = "mix"
    /\ RIsZero(fnIn.epsilon)
    /\ Len(fnIn.d) > 1
    /\ \A i \in 1..Len(fnIn.d) : fnOut.noise[i] # fnIn.d[i].v
    /\ fnOut.out.ok

---------------------------------------------------------------------------
(* The claims about noughts and crosses.  The lines of the grid are named  *)
(* here by their squares, counted from 1 row by row.                       *)

Lines ==
    {{1, 2, 3}, {4, 5, 6}, {7, 8, 9}, {1, 4, 7}, {2, 5, 8}, {3, 6, 9},
     {1, 5, 9}, {3, 5, 7}}
\* three marks in a line sum to 3 (mark 1) or to -3 (mark -1)
WonBy(state, mark) == \E line \in Lines : \A i \in line : state[i] = mark
EmptySquares(state) == {i \in 1..9 : state[i] = NaN}

\* C11: utility(state) returns Outcome(1, -1) when some line sums to 3,
\* otherwise Outcome(-1, 1) when some line sums to -3, otherwise
\* Outcome(0, 0) when no square is empty, and raises ValueError in the
\* remaining case; it raises exactly on the states is_terminal calls
\* non-terminal.
C11_UtilityByLineSums ==
    fnOut.fn = "utility"
    => (/\ fnOut.out =
             IF WonBy(fnIn.d, 1) THEN Ok(<<1, -1>>)
             ELSE IF WonBy(fnIn.d, -1) THEN Ok(<<-1, 1>>)
             ELSE IF EmptySquares(fnIn.d) = {} THEN Ok(<<0, 0>>)
             ELSE Raise("ValueError")
        /\ (fnOut.out.err = "ValueError") <=> ~nac_is_terminal(fnIn.d))

\* utility was applied to a grid with crosses and an empty square where
\* the minor diagonal is the one line of noughts
C11_Witness ==
    /\ fnOut.fn = "utility"
    /\ \A line \in Lines :
         (\A i \in line : fnIn.d[i] = 1) <=> line = {3, 5, 7}
    /\ \E i \in 1..9 : fnIn.d[i] = -1
    /\ EmptySquares(fnIn.d) # {}
    /\ fnOut.out = Ok(<<1, -1>>)

\* C12: next_states(state) raises ValueError for every terminal state; for
\* a non-terminal state it returns exactly one entry per empty square,
\* keyed (row, col), whose value is the state with 1 written at that square
\* and every other square unchanged.
C12_NextStatesFillEmptySquares ==
    fnOut.fn = "next_states"
    => IF nac_is_terminal(fnIn.d)
       THEN fnOut.out = Raise("ValueError")
       ELSE LET d == fnOut.out.val
            IN  /\ fnOut.out.ok
                /\ Len(d) = Cardinality(EmptySquares(fnIn.d))
                /\ {3 * d[j].k[1] + d[j].k[2] + 1 : j \in 1..Len(d)}
                     = EmptySquares(fnIn.d)
                /\ \A j \in 1..Len(d) :
                     /\ d[j].k[1] \in 0..2 /\ d[j].k[2] \in 0..2
                     /\ \A i \in 1..9 :
                          d[j].v[i] = IF i = 3 * d[j].k[1] + d[j].k[2] + 1
                                      THEN 1 ELSE fnIn.d[i]

\* next_states was applied to a state with crosses and noughts on it and
\* with empty squares off the main diagonal, and returned their entries
C12_Witness ==
    /\ fnOut.fn = "next_states"
    /\ fnOut.out.ok
    /\ Len(fnOut.out.val) >= 2
    /\ \E i, j \in 1..9 : fnIn.d[i] = 1 /\ fnIn.d[j] = -1
    /\ \E j \in 1..Len(fnOut.out.val) :
         fnOut.out.val[j].k[1] # fnOut.out.val[j].k[2]

---------------------------------------------------------------------------
(* The claims about the statistics and the shape of the tree.              *)

\* C13: in every reachable state every node with N > 0 has Q == W / N,
\* also after a later search started on a child of an earlier search's
\* root.
C13_MeanIsTotalOverCount ==
    \A p \in DOMAIN tree :
        tree[p].N > 0 => tree[p].Q = RDiv(tree[p].W, RInt(tree[p].N))

\* the nodes of the tree mcts has called expand on
Expanded == {p \in DOMAIN tree : search.expands[p] >= 1}
HasLegalAction(p) == legal_actions(tree[p].game_state) # <<>>

\* C14 as stated: whatever the game, expand is called at most once on each
\* node, and a node that has been expanded is never a leaf again.
C14_ExpandedOnceThenNeverLeaf ==
    \A p \in DOMAIN tree :
        /\ search.expands[p] <= 1
        /\ p \in Expanded => ~is_leaf(tree[p])

\* C14 amended: expand is called at most once on each node whose state has
\* a legal action, and after it the node is never a leaf again; a node that
\* is not terminal and whose state has no legal action stays a leaf, and
\* expand is called on it at each of its visits.
C14_ExpandedOnceWhenActionsExist ==
    \A p \in DOMAIN tree :
        IF HasLegalAction(p)
        THEN /\ search.expands[p] <= 1
             /\ p \in Expanded <=> ~is_leaf(tree[p])
        ELSE /\ is_leaf(tree[p])
             /\ search.expands[p] = IF tree[p].is_terminal THEN 0 ELSE tree[p].N

\* the root was expanded once and visited three times or more, and below
\* it a node without legal action was expanded twice or more
C14_Witness ==
    /\ search.expands[<<>>] = 1
    /\ tree[<<>>].N >= 3
    /\ ~is_leaf(tree[<<>>])
    /\ \E p \in DOMAIN tree : ~HasLegalAction(p) /\ search.expands[p] >= 2

\* C15: once a node has been expanded, the keys of its children are the
\* keys of its prior_probs, in every later state.
C15_ChildrenKeysArePriorKeys ==
    \A p \in Expanded :
        {tree[p].children[i] : i \in 1..Len(tree[p].children)}
          = KeySet(tree[p].prior_probs)

---------------------------------------------------------------------------
(* The claims about backup.  A step of CallBackup is a step that makes     *)
(* last'.op "backup" under a new sequence number; its path and value map   *)
(* are last'.nodes and last'.values, tree is the tree before the call and  *)
(* tree' the tree after it.                                                *)

BackupStep == last'.seq # last.seq /\ last'.op = "backup"
OnPath(nodes) == {nodes[i] : i \in 1..Len(nodes)}

\* C16: backup(path, value_map) adds exactly 1 to N of every node of the
\* path, and for every node but the first adds value_map[p] to W and sets
\* Q = W / N, p being the player of the node just before it on the path.
C16_BackupUpdatesPath ==
    [][BackupStep
       => \A i \in 1..Len(last'.nodes) :
            LET before == tree[last'.nodes[i]]
                after == tree'[last'.nodes[i]]
            IN  /\ after.N = before.N + 1
                /\ i > 1 =>
                     /\ after.W =
                          RAdd(before.W,
                               last'.values[tree[last'.nodes[i - 1]].player])
                     /\ after.Q = RDiv(after.W, RInt(after.N))]_vars

\* backup has run on a path of two nodes or more whose last node had
\* been backed up before and has W # 0 and Q # W
C16_Witness ==
    /\ last.op = "backup"
    /\ Len(last.nodes) >= 2
    /\ LET node == tree[last.nodes[Len(last.nodes)]]
       IN  node.N >= 2 /\ ~RIsZero(node.W) /\ node.Q # node.W

\* C17: backup changes nothing outside the path and never the W or Q of
\* the first node; after a fresh node is expanded and the path [root] is
\* backed up, root.N == 1, root.W == root.Q == 0, and every child still
\* has N == W == Q == 0 and no children.
C17_BackupFrame ==
    [][BackupStep
       => /\ DOMAIN tree' = DOMAIN tree
          /\ \A q \in DOMAIN tree \ OnPath(last'.nodes) : tree'[q] = tree[q]
          /\ \A q \in OnPath(last'.nodes) :
               tree'[q] = [tree[q] EXCEPT !.N = tree'[q].N, !.W = tree'[q].W,
                                          !.Q = tree'[q].Q]
          /\ tree'[last'.nodes[1]].W = tree[last'.nodes[1]].W
          /\ tree'[last'.nodes[1]].Q = tree[last'.nodes[1]].Q
          /\ (/\ last.seq = 1 /\ last.op = "expand" /\ last.out.ok
              /\ last.node = <<>> /\ last'.nodes = <<(<<>>)>>)
             => /\ tree'[<<>>].N = 1
                /\ tree'[<<>>].W = RInt(0) /\ tree'[<<>>].Q = RInt(0)
                /\ \A j \in 1..Len(tree'[<<>>].children) :
                     LET child == Child(tree', <<>>, j)
                     IN  /\ child.N = 0
                         /\ child.W = RInt(0) /\ child.Q = RInt(0)
                         /\ child.children = <<>>]_vars

\* a fresh root was expanded into two children and then the path [root]
\* was backed up with non-zero values
C17_Witness ==
    /\ last.seq = 2
    /\ last.op = "backup"
    /\ last.nodes = <<(<<>>)>>
    /\ ~RIsZero(last.values[1])
    /\ Len(tree[<<>>].children) = 2
    /\ tree[<<>>].N = 1

---------------------------------------------------------------------------
(* The claims about select, on the calls mcts makes.  A step taken while   *)
(* search.pc is "running" is a pass of the loop: tree is the tree select   *)
(* walks and search'.sel what select returns.                              *)

SelectPass == search.pc = "running"

\* C18: select(start, ...) returns a node list and an action list: the
\* first node is start, the last node is a leaf and no earlier one is,
\* node i+1 is the child of node i under action i, and there is one
\* action fewer than nodes.
C18_SelectReturnsPathToLeaf ==
    [][SelectPass
       => LET nodes == search'.sel.nodes
              actions == search'.sel.actions
          IN  /\ Len(nodes) >= 1
              /\ Len(actions) = Len(nodes) - 1
              /\ nodes[1] = search.root
              /\ \A i \in 1..Len(nodes) : nodes[i] \in DOMAIN tree
              /\ tree[nodes[Len(nodes)]].children = <<>>
              /\ \A i \in 1..(Len(nodes) - 1) :
                   /\ tree[nodes[i]].children # <<>>
                   /\ \E j \in 1..Len(tree[nodes[i]].children) :
                        actions[i] = tree[nodes[i]].children[j]
                   /\ nodes[i + 1] = Append(nodes[i], actions[i])]_vars

\* select has walked two steps down from the root of the search
C18_Witness ==
    /\ search.i >= 1
    /\ Len(search.sel.nodes) = 3
    /\ search.sel.nodes[1] = search.root
    /\ search.sel.nodes[3]
         = search.root \o <<search.sel.actions[1], search.sel.actions[2]>>

\* the scores at node p for the drawn noise, in the order of p's children
ScoresAt(p, noise) ==
    compute_ucb(ActionValues(tree, p),
                mix_dirichlet_noise(tree[p].prior_probs, search.epsilon, noise),
                ActionCounts(tree, p), search.c_puct).val

\* C19: at every non-leaf node of its path select goes down to the child
\* whose action has the greatest UCB score and, among several actions with
\* the greatest score, to the first in the insertion order of the children.
C19_SelectTakesFirstMaximum ==
    [][SelectPass
       => \A i \in 1..Len(search'.sel.actions) :
            LET p == search'.sel.nodes[i]
                a == CHOOSE j \in 1..Len(tree[p].children) :
                       tree[p].children[j] = search'.sel.actions[i]
            IN  \E noise \in DirichletSamples(Len(tree[p].prior_probs)) :
                  LET ucb == ScoresAt(p, noise)
                  IN  /\ \A j \in 1..Len(ucb) : ~SurdLt(ucb[a].v, ucb[j].v)
                      /\ \A j \in 1..(a - 1) : SurdLt(ucb[j].v, ucb[a].v)]_vars

\* the second pass of a search without noise on a fresh root with two
\* children, where every score was 0: select took the first child
C19_Witness ==
    /\ search.startN = 0
    /\ search.i = 2
    /\ RIsZero(search.epsilon)
    /\ Len(Root.children) = 2
    /\ search.sel.actions = <<Root.children[1]>>

---------------------------------------------------------------------------
(* The claims about the passes of mcts: what a pass calls, and the         *)
(* statistics the passes leave in the tree.                                *)

\* the leaf of the pass just made: the last node select returned
LeafOfPass == search'.sel.nodes[Len(search'.sel.nodes)]

\* C21: in a pass whose selected leaf is terminal the evaluator is not
\* called, the leaf is not expanded, and the value map backed up is
\* game.utility of the leaf's state; so no node with is_terminal true has
\* children in any state mcts reaches.
C21_TerminalLeafNotEvaluated ==
    /\ [](\A p \in DOMAIN tree :
            tree[p].is_terminal => tree[p].children = <<>>)
    /\ [][(SelectPass /\ tree[LeafOfPass].is_terminal)
          => /\ search'.evals = search.evals
             /\ search'.nEvals = search.nEvals
             /\ search'.expands = search.expands
             /\ search'.utils[LeafOfPass] = search.utils[LeafOfPass] + 1
             /\ tree' = backup(tree, search'.sel.nodes,
                               utility(tree[LeafOfPass].game_state))]_vars

\* the last pass went down to a terminal leaf below the root: the leaf was
\* handed to game.utility and not to the evaluator, and has W # 0
C21_Witness ==
    /\ Len(search.sel.nodes) >= 2
    /\ LET p == search.sel.nodes[Len(search.sel.nodes)]
       IN  /\ tree[p].is_terminal
           /\ search.utils[p] >= 1
           /\ search.evals[p] = 0
           /\ ~RIsZero(tree[p].W)

GrownFromFreshRoot == search.root = <<>>

\* C23: in a tree grown by mcts from a fresh root, after every pass every
\* node with N == 0 is a leaf and every node with children has
\* N == 1 + the sum of N over its children, at every depth.
C23_VisitsAreOnePlusChildren ==
    GrownFromFreshRoot
    => \A p \in DOMAIN tree :
         /\ tree[p].N = 0 => is_leaf(tree[p])
         /\ ~is_leaf(tree[p]) => tree[p].N = 1 + ISum(ActionCounts(tree, p))

\* below the fresh root a node with children has been visited twice or
\* more, and the root has visited children besides it
C23_Witness ==
    /\ GrownFromFreshRoot
    /\ \E p \in DOMAIN tree :
         /\ Len(p) = 1
         /\ ~is_leaf(tree[p])
         /\ tree[p].N >= 2
         /\ tree[<<>>].N > 1 + tree[p].N

\* the trees a pass can leave, one for each way the Dirichlet draws of its
\* select can fall
PassOutcomes ==
    {MctsIteration(tree, sel,
                   Estimate(search.estimator,
                            tree[sel.val.nodes[Len(sel.val.nodes)]].game_state))
       : sel \in select(tree, search.root, search.c_puct, search.epsilon)}

\* C24: with dirichlet_epsilon == 0 and a deterministic game and
\* evaluator, runs of mcts that differ only in their Dirichlet draws have
\* the same tree after every pass and return the same distribution: from
\* equal trees, a pass leaves the tree of this run whatever the draws, and
\* what mcts returns is a function of the tree.
C24_NoNoiseNoDependenceOnDraws ==
    [][(SelectPass /\ RIsZero(search.epsilon))
       => /\ PassOutcomes = {Ok(tree')}
          /\ \A sel \in select(tree, search.root, search.c_puct,
                               search.epsilon) :
               sel.val.nodes = search'.sel.nodes
          /\ search'.pc # "running"
             => search'.out = MctsResult(tree', search.root, search.tau)]_vars

\* a run without noise has made a pass on a tree where the draws had
\* several choices to mix in: two children at the root, with visits
C24_Witness ==
    /\ RIsZero(search.epsilon)
    /\ search.i >= 3
    /\ Len(Root.children) = 2
    /\ Len(search.sel.actions) >= 1
    /\ Cardinality(DirichletSamples(Len(Root.prior_probs))) >= 2

\* |x| <= 1 for the value x
InUnit(x) == RLe(RInt(-1), x) /\ RLe(x, RInt(1))

\* every value of the estimators and every terminal utility of the games
\* is in [-1, 1]
ValuesInUnit ==
    \A tokens \in 0..MaxTokens, player \in Players, takes \in Games :
        /\ \A e \in Estimators :
             InUnit(Estimate(e, GameState(tokens, player, takes)).value)
        /\ \A p \in Players :
             InUnit(utility(GameState(0, player, takes))[p])

\* C25: with evaluator values and terminal utilities in [-1, 1], every
\* node of a tree grown by mcts from a fresh root has -N <= W <= N, so
\* -1 <= Q <= 1, after any number of passes, and the root keeps W == 0
\* and Q == 0.
C25_TotalsBoundedByVisits ==
    ValuesInUnit
    => /\ \A p \in DOMAIN tree :
            /\ RLe(RInt(-tree[p].N), tree[p].W)
            /\ RLe(tree[p].W, RInt(tree[p].N))
            /\ InUnit(tree[p].Q)
       /\ tree[<<>>].W = RInt(0)
       /\ tree[<<>>].Q = RInt(0)

\* the root has three visits or more, and below it one node has W == N and
\* another W == -N, each after two visits or more
C25_Witness ==
    /\ ValuesInUnit
    /\ tree[<<>>].N >= 3
    /\ \E p, q \in DOMAIN tree :
         /\ tree[p].N >= 2 /\ tree[p].W = RInt(tree[p].N)
         /\ tree[q].N >= 1 /\ tree[q].W = RInt(-tree[q].N)

====
